---- MODULE Spec2Model ----
(***************************************************************************)
(* Recipe Manager (src/recipe_manager.py): a menu loop over an in-memory   *)
(* list of recipe dictionaries, saved in full to one JSON document after   *)
(* every successful add, edit and delete.                                  *)
(*                                                                         *)
(* A Python str is a sequence of one-character strings.  A recipe is a     *)
(* Python dict: a function from its keys (strs) to its values.  The JSON   *)
(* document is the sequence of lexical tokens json.dump writes: the        *)
(* punctuation and the string literals, each literal holding its escaped   *)
(* characters.  The insignificant whitespace of indent=4 is left out.      *)
(***************************************************************************)
EXTENDS Integers, Sequences, FiniteSets, TLC

VARIABLES recipes, disk, pc, input, out, saves, failures

vars == <<recipes, disk, pc, input, out, saves, failures>>

(***************************************************************************)
(* Bounds of the model.                                                    *)
(***************************************************************************)
MaxRecipes == 2
MaxSaveFailures == 1

(***************************************************************************)
(* str methods: lower, strip, join, the in operator.                       *)
(***************************************************************************)
LowerChar(c) ==
    CASE c = "A" -> "a"
      [] c = "B" -> "b"
      [] c = "D" -> "d"
      [] c = "E" -> "e"
      [] c = "N" -> "n"
      [] c = "O" -> "o"
      [] c = "S" -> "s"
      [] c = "Y" -> "y"
      [] OTHER -> c

Lower(s) == [i \in 1..Len(s) |-> LowerChar(s[i])]

IsSpace(c) == c \in {" ", "\n", "\t"}

RECURSIVE LStrip(_)
LStrip(s) ==
    IF s # <<>> /\ IsSpace(Head(s)) THEN LStrip(Tail(s)) ELSE s

RECURSIVE RStrip(_)
RStrip(s) ==
    IF s # <<>> /\ IsSpace(s[Len(s)]) THEN RStrip(SubSeq(s, 1, Len(s) - 1)) ELSE s

Strip(s) == RStrip(LStrip(s))

RECURSIVE Join(_, _)
Join(sep, lines) ==
    IF lines = <<>> THEN <<>>
    ELSE IF Len(lines) = 1 THEN lines[1]
    ELSE lines[1] \o sep \o Join(sep, Tail(lines))

Contains(sub, s) ==
    \E i \in 0..(Len(s) - Len(sub)) : SubSeq(s, i + 1, i + Len(sub)) = sub

Done == <<"d", "o", "n", "e">>
Yes == <<"y", "e", "s">>
Newline == <<"\n">>

(***************************************************************************)
(* The recipe dictionary.                                                  *)
(***************************************************************************)
KTitle == <<"t", "i", "t", "l", "e">>
KIngredients == <<"i", "n", "g", "r", "e", "d", "i", "e", "n", "t", "s">>
KInstructions == <<"i", "n", "s", "t", "r", "u", "c", "t", "i", "o", "n", "s">>

NewRecipe(title, ingredients, instructions) ==
    (KTitle :> title) @@ (KIngredients :> ingredients) @@ (KInstructions :> instructions)

(***************************************************************************)
(* json.dump: the encoder's tokens.                                        *)
(***************************************************************************)
Tok(t) == [t |-> t, lit |-> <<>>]
StrTok(chars) == [t |-> "str", lit |-> chars]

\* The character U+00E9, the one character of the model outside ASCII.
EAcute == "U+00E9"

\* ensure_ascii is on: a character outside ASCII is written as \uXXXX.
EscapeChar(c) ==
    CASE c = "\"" -> <<"\\", "\"">>
      [] c = "\\" -> <<"\\", "\\">>
      [] c = "\n" -> <<"\\", "n">>
      [] c = "\t" -> <<"\\", "t">>
      [] c = EAcute -> <<"\\", "u", "0", "0", "e", "9">>
      [] OTHER -> <<c>>

RECURSIVE Escape(_)
Escape(s) ==
    IF s = <<>> THEN <<>> ELSE EscapeChar(Head(s)) \o Escape(Tail(s))

DumpStr(s) == <<StrTok(Escape(s))>>

RECURSIVE DumpItems(_, _)
DumpStrList(l) ==
    IF l = <<>> THEN <<Tok("["), Tok("]")>>
    ELSE <<Tok("[")>> \o DumpItems(l, 1) \o <<Tok("]")>>
DumpItems(l, i) ==
    IF i = Len(l) THEN DumpStr(l[i])
    ELSE DumpStr(l[i]) \o <<Tok(",")>> \o DumpItems(l, i + 1)

DumpRecipe(r) ==
    <<Tok("{")>>
    \o DumpStr(KTitle) \o <<Tok(":")>> \o DumpStr(r[KTitle]) \o <<Tok(",")>>
    \o DumpStr(KIngredients) \o <<Tok(":")>> \o DumpStrList(r[KIngredients]) \o <<Tok(",")>>
    \o DumpStr(KInstructions) \o <<Tok(":")>> \o DumpStr(r[KInstructions])
    \o <<Tok("}")>>

RECURSIVE DumpRecipes(_, _)
DumpRecipes(l, i) ==
    IF i = Len(l) THEN DumpRecipe(l[i])
    ELSE DumpRecipe(l[i]) \o <<Tok(",")>> \o DumpRecipes(l, i + 1)

Dump(l) ==
    IF l = <<>> THEN <<Tok("["), Tok("]")>>
    ELSE <<Tok("[")>> \o DumpRecipes(l, 1) \o <<Tok("]")>>

(***************************************************************************)
(* json.load: the decoder.  A result is [ok, val, next]; next is the       *)
(* position after the value.                                               *)
(***************************************************************************)
ParseFail == [ok |-> FALSE, val |-> <<>>, next |-> 0]

RECURSIVE Unescape(_, _, _)
Unescape(lit, i, acc) ==
    IF i > Len(lit) THEN [ok |-> TRUE, val |-> acc]
    ELSE IF lit[i] = "\\"
         THEN IF i + 1 > Len(lit) THEN [ok |-> FALSE, val |-> <<>>]
              ELSE CASE lit[i + 1] = "\"" -> Unescape(lit, i + 2, Append(acc, "\""))
                     [] lit[i + 1] = "\\" -> Unescape(lit, i + 2, Append(acc, "\\"))
                     [] lit[i + 1] = "n" -> Unescape(lit, i + 2, Append(acc, "\n"))
                     [] lit[i + 1] = "t" -> Unescape(lit, i + 2, Append(acc, "\t"))
                     [] lit[i + 1] = "u" ->
                          IF i + 5 <= Len(lit)
                             /\ SubSeq(lit, i + 2, i + 5) = <<"0", "0", "e", "9">>
                          THEN Unescape(lit, i + 6, Append(acc, EAcute))
                          ELSE [ok |-> FALSE, val |-> <<>>]
                     [] OTHER -> [ok |-> FALSE, val |-> <<>>]
         ELSE IF lit[i] \in {"\"", "\n", "\t"}
              THEN [ok |-> FALSE, val |-> <<>>]
              ELSE Unescape(lit, i + 1, Append(acc, lit[i]))

RECURSIVE ParseValue(_, _)
RECURSIVE ParseElements(_, _, _)
RECURSIVE ParseMembers(_, _, _)

ParseValue(toks, i) ==
    IF i > Len(toks) THEN ParseFail
    ELSE CASE toks[i].t = "str" ->
                LET d == Unescape(toks[i].lit, 1, <<>>)
                IN  IF d.ok THEN [ok |-> TRUE, val |-> d.val, next |-> i + 1]
                    ELSE ParseFail
           [] toks[i].t = "[" ->
                IF i + 1 <= Len(toks) /\ toks[i + 1].t = "]"
                THEN [ok |-> TRUE, val |-> <<>>, next |-> i + 2]
                ELSE ParseElements(toks, i + 1, <<>>)
           [] toks[i].t = "{" ->
                IF i + 1 <= Len(toks) /\ toks[i + 1].t = "}"
                THEN [ok |-> TRUE, val |-> <<>>, next |-> i + 2]
                ELSE ParseMembers(toks, i + 1, <<>>)
           [] OTHER -> ParseFail

ParseElements(toks, i, acc) ==
    LET v == ParseValue(toks, i)
    IN  IF ~v.ok \/ v.next > Len(toks) THEN ParseFail
        ELSE CASE toks[v.next].t = "," ->
                    ParseElements(toks, v.next + 1, Append(acc, v.val))
               [] toks[v.next].t = "]" ->
                    [ok |-> TRUE, val |-> Append(acc, v.val), next |-> v.next + 1]
               [] OTHER -> ParseFail

ParseMembers(toks, i, acc) ==
    IF i + 1 > Len(toks) \/ toks[i].t # "str" \/ toks[i + 1].t # ":" THEN ParseFail
    ELSE LET k == Unescape(toks[i].lit, 1, <<>>)
             v == ParseValue(toks, i + 2)
         IN  IF ~k.ok \/ ~v.ok \/ v.next > Len(toks) THEN ParseFail
             ELSE CASE toks[v.next].t = "," ->
                         ParseMembers(toks, v.next + 1, (k.val :> v.val) @@ acc)
                    [] toks[v.next].t = "}" ->
                         [ok |-> TRUE, val |-> (k.val :> v.val) @@ acc, next |-> v.next + 1]
                    [] OTHER -> ParseFail

(***************************************************************************)
(* The recipe store: the file is absent, or holds a token sequence.        *)
(***************************************************************************)
NoFile == [exists |-> FALSE, content |-> <<>>]
File(toks) == [exists |-> TRUE, content |-> toks]

\* A byte of the file that is no text in the encoding open(..., "r") decodes with.
BadByte == Tok("byte")

\* file.read() returns the text of the file.
Decodable(toks) == \A i \in 1..Len(toks) : toks[i].t # "byte"

\* load_recipes: what it returns when it returns.
LoadRecipes(d) ==
    IF ~d.exists THEN <<>>
    ELSE LET p == ParseValue(d.content, 1)
         IN  IF p.ok /\ p.next = Len(d.content) + 1 THEN p.val ELSE <<>>

\* load_recipes: whether an exception leaves it.  io is the outcome of the file
\* system: "mkdir": os.makedirs raises; "open": open raises an OSError that is
\* no FileNotFoundError; "ok": neither.  Only FileNotFoundError and
\* json.JSONDecodeError are caught, so the UnicodeDecodeError of file.read()
\* on bytes that are no text is not.
LoadRaises(d, io) ==
    \/ io # "ok"
    \/ d.exists /\ ~Decodable(d.content)

LoadOutcomes == {"ok", "mkdir", "open"}

\* save_recipes writing over the document from its start without truncating it.
SaveRecipesInPlace(l, d, io) ==
    CASE io = "ok" ->
            File(Dump(l) \o SubSeq(d.content, Len(Dump(l)) + 1, Len(d.content)))
      [] io \in {"mkdir", "open"} -> d
      [] io = "truncated" -> File(<<>>)
      [] OTHER -> File(SubSeq(Dump(l), 1, Len(Dump(l)) \div 2))

\* save_recipes: io is the outcome of the file system.  "ok": the document is
\* replaced by the dump of the collection.  "mkdir": os.makedirs raises, before
\* the try statement.  "open": open() raises, the document is left as it was.  "truncated": open() emptied the file and the write raised
\* before anything reached it.  "partial": the write raised after the first half
\* of the dump.
SaveRecipes(l, d, io) ==
    CASE io = "ok" -> File(Dump(l))
      [] io \in {"mkdir", "open"} -> d
      [] io = "truncated" -> File(<<>>)
      [] OTHER -> File(SubSeq(Dump(l), 1, Len(Dump(l)) \div 2))

IoOutcomes == {"ok", "mkdir", "open", "truncated", "partial"}

\* save_recipes: whether the exception of the outcome leaves it.  The try
\* statement covers open and json.dump, not os.makedirs.
SaveRaises(io) == io = "mkdir"

\* The file system never fails.
Healthy == {"ok"}

(***************************************************************************)
(* The lines the user can type.                                            *)
(***************************************************************************)
DoneAlt == <<" ", "D", "o", "n", "e">>
DoneUpper == <<"D", "O", "N", "E">>

\* A title typed at add_recipe's title prompt.
TitleInputs == {<<>>, <<" ">>, <<"a">>, <<"A">>, <<" ", "b">>}

\* A title typed at edit_recipe's new title prompt.
NewTitleInputs == {<<>>, <<"a">>, <<"A">>, <<" ", "b">>}

\* A title typed at the target prompt of edit_recipe and delete_recipe.
TargetInputs == {<<>>, <<"A">>, <<"b", " ">>, <<"a", "b">>}

\* What is typed at the ingredient prompts, up to and including the terminator.
IngredientInputs ==
    { <<Done>>,
      <<<<>>, DoneAlt>>,
      <<<<" ", "a">>, Done>>,
      <<<<"a", "B">>, <<>>, <<"a", " ">>, DoneAlt>> }

\* What is typed at the instruction prompt, up to and including the terminator.
InstructionInputs ==
    { <<Done>>,
      <<<<" ">>, DoneUpper>>,
      <<<<>>, <<"a">>, Done>>,
      <<<<"a">>, DoneAlt, <<"b">>, DoneUpper>> }

\* The answer to "Clear all current ingredients? (yes/no)".
ClearInputs == {<<"Y", "e", "s">>, <<"n", "o">>, <<" ", "y", "e", "s">>}

SearchInputs == {<<>>, <<" ">>, <<"a">>, <<" ", "B">>, <<"b", "a">>}

(***************************************************************************)
(* The input loops of add_recipe and edit_recipe.                          *)
(***************************************************************************)
\* The ingredient loop without its test for an empty line.
RECURSIVE CollectIngredientsKeepBlank(_, _)
CollectIngredientsKeepBlank(lines, ingredients) ==
    LET ingredient == Strip(Head(lines))
    IN  IF Lower(ingredient) = Done THEN ingredients
        ELSE CollectIngredientsKeepBlank(Tail(lines), Append(ingredients, ingredient))

RECURSIVE CollectIngredients(_, _)
CollectIngredients(lines, ingredients) ==
    LET ingredient == Strip(Head(lines))
    IN  IF Lower(ingredient) = Done THEN ingredients
        ELSE IF ingredient # <<>>
             THEN CollectIngredients(Tail(lines), Append(ingredients, ingredient))
             ELSE CollectIngredients(Tail(lines), ingredients)

RECURSIVE CollectLines(_, _)
CollectLines(lines, instructions_lines) ==
    LET line == Head(lines)
    IN  IF Lower(line) = Done THEN instructions_lines
        ELSE CollectLines(Tail(lines), Append(instructions_lines, line))

JoinInstructions(instructions_lines) == Strip(Join(Newline, instructions_lines))

(***************************************************************************)
(* The searches of the handlers.                                           *)
(***************************************************************************)
\* The duplicate title check comparing the titles as typed, case included.
TitleExistsExact(rs, title) ==
    \E i \in 1..Len(rs) : rs[i][KTitle] = title

\* add_recipe: the duplicate title check.
TitleExists(rs, title) ==
    \E i \in 1..Len(rs) : Lower(rs[i][KTitle]) = Lower(title)

\* The lookup testing containment instead of equality.
FindRecipeContained(rs, title_to_edit) ==
    IF \E i \in 1..Len(rs) : Contains(Lower(rs[i][KTitle]), Lower(title_to_edit))
    THEN CHOOSE i \in 1..Len(rs) :
            /\ Contains(Lower(rs[i][KTitle]), Lower(title_to_edit))
            /\ \A j \in 1..(i - 1) : ~Contains(Lower(rs[j][KTitle]), Lower(title_to_edit))
    ELSE 0

\* edit_recipe: the index of the first recipe with the title, 0 when none.
FindRecipe(rs, title_to_edit) ==
    IF \E i \in 1..Len(rs) : Lower(rs[i][KTitle]) = Lower(title_to_edit)
    THEN CHOOSE i \in 1..Len(rs) :
            /\ Lower(rs[i][KTitle]) = Lower(title_to_edit)
            /\ \A j \in 1..(i - 1) : Lower(rs[j][KTitle]) # Lower(title_to_edit)
    ELSE 0

\* The duplicate check of the new title with the edited recipe included.
IsDuplicateOfAny(rs, recipe_index, new_title) ==
    \E i \in 1..Len(rs) : Lower(rs[i][KTitle]) = Lower(new_title)

\* edit_recipe: the duplicate check of the new title, the edited recipe excluded.
IsDuplicate(rs, recipe_index, new_title) ==
    \E i \in 1..Len(rs) : i # recipe_index /\ Lower(rs[i][KTitle]) = Lower(new_title)

\* delete_recipe: the list rebuilt without the recipes of that title.
WithoutTitle(rs, title_to_delete) ==
    LET Keep(recipe) == Lower(recipe[KTitle]) # Lower(title_to_delete)
    IN  SelectSeq(rs, Keep)

\* The loop body without the continue after a title match.
AppendedNoContinue(recipe, search_term) ==
    (IF Contains(search_term, Lower(recipe[KTitle])) THEN <<recipe>> ELSE <<>>)
    \o (IF \E k \in 1..Len(recipe[KIngredients]) :
               Contains(search_term, Lower(recipe[KIngredients][k]))
        THEN <<recipe>>
        ELSE <<>>)

\* search_recipes: what one pass of the loop body appends to found_recipes.
\* A title match appends the recipe and continues with the next recipe;
\* otherwise the first matching ingredient appends it and breaks.
Appended(recipe, search_term) ==
    IF Contains(search_term, Lower(recipe[KTitle])) THEN <<recipe>>
    ELSE IF \E k \in 1..Len(recipe[KIngredients]) :
               Contains(search_term, Lower(recipe[KIngredients][k]))
         THEN <<recipe>>
         ELSE <<>>

RECURSIVE FoundRecipes(_, _, _)
FoundRecipes(rs, search_term, found_recipes) ==
    IF rs = <<>> THEN found_recipes
    ELSE FoundRecipes(Tail(rs), search_term, found_recipes \o Appended(Head(rs), search_term))

(***************************************************************************)
(* edit_recipe: the recipe after the three field prompts.                  *)
(***************************************************************************)
EditedTitle(rs, recipe_index, new_title) ==
    IF new_title # <<>> /\ ~IsDuplicate(rs, recipe_index, new_title)
    THEN new_title
    ELSE rs[recipe_index][KTitle]

\* The ingredient edit clearing the list whenever no ingredient is entered.
EditedIngredientsUnasked(recipe, new_ingredients, answer) ==
    IF new_ingredients # <<>> THEN new_ingredients ELSE <<>>

EditedIngredients(recipe, new_ingredients, answer) ==
    IF new_ingredients # <<>> THEN new_ingredients
    ELSE IF Lower(answer) = Yes THEN <<>>
    ELSE recipe[KIngredients]

EditedInstructions(recipe, new_instructions_lines) ==
    IF new_instructions_lines # <<>> /\ JoinInstructions(new_instructions_lines) # <<>>
    THEN JoinInstructions(new_instructions_lines)
    ELSE recipe[KInstructions]

\* The edit taking the recipe out of the list and appending the edited one.
EditedRecipesAtEnd(rs, recipe_index, new_title, new_ingredients, answer, new_instructions_lines) ==
    Append(SubSeq(rs, 1, recipe_index - 1) \o SubSeq(rs, recipe_index + 1, Len(rs)),
           NewRecipe(EditedTitle(rs, recipe_index, new_title),
                     EditedIngredients(rs[recipe_index], new_ingredients, answer),
                     EditedInstructions(rs[recipe_index], new_instructions_lines)))

EditedRecipes(rs, recipe_index, new_title, new_ingredients, answer, new_instructions_lines) ==
    [rs EXCEPT ![recipe_index] =
        NewRecipe(EditedTitle(rs, recipe_index, new_title),
                  EditedIngredients(rs[recipe_index], new_ingredients, answer),
                  EditedInstructions(rs[recipe_index], new_instructions_lines))]

(***************************************************************************)
(* The state.  recipes: the list main holds.  disk: the document.  pc:     *)
(* where the program is: before load_recipes ("start"), at the menu        *)
(* prompt, inside a handler, after the loop ("exit"), or ended by an       *)
(* exception no except clause caught ("crashed").  input: the lines        *)
(* the user types at the prompts of the handler being run.  out: what the  *)
(* last handler printed.  saves: the arguments of the calls of             *)
(* save_recipes the last handler made.  failures: the saves that raised.   *)
(***************************************************************************)
NoInput == [arg |-> <<>>, newTitle |-> <<>>, ings |-> <<>>, answer |-> <<>>, lines |-> <<>>]

Printed(msg, found, conflict) ==
    [msg |-> msg, found |-> found, conflict |-> conflict, save |-> "none"]

\* save_recipes: what it prints.
SavePrinted(io) ==
    CASE io = "ok" -> "saved"
      [] SaveRaises(io) -> "traceback"
      [] OTHER -> "error"

\* add_recipe: how many of its three prompts (title, ingredients, instructions)
\* it reaches.
AddPrompts(rs, in) ==
    IF Strip(in.arg) = <<>> \/ TitleExists(rs, Strip(in.arg)) THEN 1
    ELSE IF CollectIngredients(in.ings, <<>>) = <<>> THEN 2
    ELSE 3

\* The lines typed during one run of add_recipe: a line for every prompt it
\* reaches and none beyond.
AddInputs(rs) ==
    { in \in [arg : TitleInputs, newTitle : {<<>>}, ings : IngredientInputs,
              answer : {<<>>}, lines : InstructionInputs \cup {<<>>}] :
         /\ AddPrompts(rs, in) >= 2
         /\ (in.lines # <<>>) <=> (AddPrompts(rs, in) = 3) }
    \cup
    { [NoInput EXCEPT !.arg = t] :
         t \in {u \in TitleInputs : Strip(u) = <<>> \/ TitleExists(rs, Strip(u))} }

\* The lines typed during one run of search_recipes.
SearchScripts(rs) ==
    IF rs = <<>> THEN {NoInput}
    ELSE { [NoInput EXCEPT !.arg = t] : t \in SearchInputs }

\* The lines typed during one run of edit_recipe.
EditInputs(rs) ==
    IF rs = <<>> THEN {NoInput}
    ELSE { [NoInput EXCEPT !.arg = t] :
              t \in {u \in TargetInputs : FindRecipe(rs, Strip(u)) = 0} }
         \cup
         { in \in [arg : {u \in TargetInputs : FindRecipe(rs, Strip(u)) # 0},
                   newTitle : NewTitleInputs, ings : IngredientInputs,
                   answer : ClearInputs \cup {<<>>}, lines : InstructionInputs] :
              (in.answer # <<>>) <=> (CollectIngredients(in.ings, <<>>) = <<>>) }

\* The lines typed during one run of delete_recipe.
DeleteInputs(rs) ==
    IF rs = <<>> THEN {NoInput}
    ELSE { [NoInput EXCEPT !.arg = t] : t \in TargetInputs }

\* The handler returns to the menu without having called save_recipes.
Return(msg, found) ==
    /\ pc' = "menu"
    /\ input' = NoInput
    /\ out' = Printed(msg, found, FALSE)
    /\ saves' = <<>>
    /\ UNCHANGED <<disk, failures>>

\* The handler calls save_recipes(rs) and returns to the menu, unless
\* save_recipes raises: the exception leaves the handler and main.
SaveAndReturn(msg, conflict, rs, ios) ==
    /\ input' = NoInput
    /\ saves' = <<rs>>
    /\ \E io \in ios :
          /\ io # "ok" => failures < MaxSaveFailures
          /\ pc' = IF SaveRaises(io) THEN "crashed" ELSE "menu"
          /\ out' = [Printed(msg, <<>>, conflict) EXCEPT !.save = SavePrinted(io)]
          /\ disk' = SaveRecipes(rs, disk, io)
          /\ failures' = IF io = "ok" THEN failures ELSE failures + 1

(***************************************************************************)
(* The program.                                                            *)
(***************************************************************************)
InitDocuments ==
    { NoFile,
      File(<<Tok("[")>>),
      File(<<BadByte>>),
      File(Dump(<<>>)),
      File(Dump(<<NewRecipe(<<"b">>, <<<<"a">>>>, <<"a">>)>>)),
      File(Dump(<<NewRecipe(<<"a">>, <<<<"a">>>>, <<"a">>),
                  NewRecipe(<<"A">>, <<<<"a", "B">>, <<"a">>>>, <<"a">>)>>)) }

Init ==
    /\ recipes = <<>>
    /\ disk \in InitDocuments
    /\ pc = "start"
    /\ input = NoInput
    /\ out = Printed("init", <<>>, FALSE)
    /\ saves = <<>>
    /\ failures = 0

\* main: recipes = load_recipes(), the file system behaving as in ios.  An
\* exception that leaves load_recipes leaves main.
MainLoadOn(ios) ==
    /\ pc = "start"
    /\ \E io \in ios \cap LoadOutcomes :
          IF LoadRaises(disk, io)
          THEN /\ pc' = "crashed"
               /\ out' = Printed("traceback", <<>>, FALSE)
               /\ UNCHANGED recipes
          ELSE /\ pc' = "menu"
               /\ recipes' = LoadRecipes(disk)
               /\ UNCHANGED out
    /\ UNCHANGED <<disk, input, saves, failures>>

MainLoad == MainLoadOn(Healthy)

\* main: the menu is printed and a choice is read; the handler of the choice is
\* entered, the user's lines for it pending.
Menu ==
    /\ pc = "menu"
    /\ \/ /\ Len(recipes) < MaxRecipes
          /\ pc' = "add"
          /\ input' \in AddInputs(recipes)
       \/ pc' = "view" /\ input' = NoInput
       \/ pc' = "search" /\ input' \in SearchScripts(recipes)
       \/ pc' = "edit" /\ input' \in EditInputs(recipes)
       \/ pc' = "delete" /\ input' \in DeleteInputs(recipes)
    /\ out' = Printed("menu", <<>>, FALSE)
    /\ saves' = <<>>
    /\ UNCHANGED <<recipes, disk, failures>>

\* main: choice "6"
Exit ==
    /\ pc = "menu"
    /\ pc' = "exit"
    /\ out' = Printed("bye", <<>>, FALSE)
    /\ saves' = <<>>
    /\ UNCHANGED <<recipes, disk, input, failures>>

\* main: a choice that is none of "1" to "6"
InvalidChoice ==
    /\ pc = "menu"
    /\ pc' = "menu"
    /\ out' = Printed("invalid_choice", <<>>, FALSE)
    /\ saves' = <<>>
    /\ UNCHANGED <<recipes, disk, input, failures>>

\* add_recipe without its check of the instructions.
AddOnUnchecked(ios) ==
    /\ pc = "add"
    /\ LET title == Strip(input.arg)
           ingredients == CollectIngredients(input.ings, <<>>)
           instructions == JoinInstructions(CollectLines(input.lines, <<>>))
       IN  IF title = <<>>
           THEN recipes' = recipes /\ Return("title_empty", <<>>)
           ELSE IF TitleExists(recipes, title)
           THEN recipes' = recipes /\ Return("duplicate", <<>>)
           ELSE IF ingredients = <<>>
           THEN recipes' = recipes /\ Return("no_ingredients", <<>>)
           ELSE /\ recipes' = Append(recipes, NewRecipe(title, ingredients, instructions))
                /\ SaveAndReturn("added", FALSE, recipes', ios)

\* add_recipe(recipes), the file system behaving as in ios
AddOn(ios) ==
    /\ pc = "add"
    /\ LET title == Strip(input.arg)
           ingredients == CollectIngredients(input.ings, <<>>)
           instructions == JoinInstructions(CollectLines(input.lines, <<>>))
       IN  IF title = <<>>
           THEN recipes' = recipes /\ Return("title_empty", <<>>)
           ELSE IF TitleExists(recipes, title)
           THEN recipes' = recipes /\ Return("duplicate", <<>>)
           ELSE IF ingredients = <<>>
           THEN recipes' = recipes /\ Return("no_ingredients", <<>>)
           ELSE IF instructions = <<>>
           THEN recipes' = recipes /\ Return("no_instructions", <<>>)
           ELSE /\ recipes' = Append(recipes, NewRecipe(title, ingredients, instructions))
                /\ SaveAndReturn("added", FALSE, recipes', ios)

\* view_recipes(recipes)
View ==
    /\ pc = "view"
    /\ recipes' = recipes
    /\ IF recipes = <<>> THEN Return("empty", <<>>) ELSE Return("listed", recipes)

\* search_recipes lower-casing the titles in place before comparing them.
SearchLowering ==
    /\ pc = "search"
    /\ recipes' = [i \in 1..Len(recipes) |->
                      [recipes[i] EXCEPT ![KTitle] = Lower(recipes[i][KTitle])]]
    /\ LET search_term == Lower(Strip(input.arg))
           found_recipes == FoundRecipes(recipes', search_term, <<>>)
       IN  IF recipes = <<>> THEN Return("empty", <<>>)
           ELSE IF search_term = <<>> THEN Return("term_empty", <<>>)
           ELSE IF found_recipes = <<>> THEN Return("no_match", <<>>)
           ELSE Return("found", found_recipes)

\* search_recipes(recipes)
Search ==
    /\ pc = "search"
    /\ recipes' = recipes
    /\ LET search_term == Lower(Strip(input.arg))
           found_recipes == FoundRecipes(recipes, search_term, <<>>)
       IN  IF recipes = <<>> THEN Return("empty", <<>>)
           ELSE IF search_term = <<>> THEN Return("term_empty", <<>>)
           ELSE IF found_recipes = <<>> THEN Return("no_match", <<>>)
           ELSE Return("found", found_recipes)

\* edit_recipe saving only when a field changed.
EditOnIfChanged(ios) ==
    /\ pc = "edit"
    /\ LET title_to_edit == Strip(input.arg)
           recipe_index == FindRecipe(recipes, title_to_edit)
           new_title == Strip(input.newTitle)
       IN  IF recipes = <<>>
           THEN recipes' = recipes /\ Return("empty", <<>>)
           ELSE IF recipe_index = 0
           THEN recipes' = recipes /\ Return("not_found", <<>>)
           ELSE /\ recipes' = EditedRecipes(recipes, recipe_index, new_title,
                                  CollectIngredients(input.ings, <<>>), input.answer,
                                  CollectLines(input.lines, <<>>))
                /\ IF recipes' = recipes
                   THEN Return("updated", <<>>)
                   ELSE SaveAndReturn("updated",
                            new_title # <<>> /\ IsDuplicate(recipes, recipe_index, new_title),
                            recipes', ios)

\* edit_recipe(recipes), the file system behaving as in ios
EditOn(ios) ==
    /\ pc = "edit"
    /\ LET title_to_edit == Strip(input.arg)
           recipe_index == FindRecipe(recipes, title_to_edit)
           new_title == Strip(input.newTitle)
       IN  IF recipes = <<>>
           THEN recipes' = recipes /\ Return("empty", <<>>)
           ELSE IF recipe_index = 0
           THEN recipes' = recipes /\ Return("not_found", <<>>)
           ELSE /\ recipes' = EditedRecipes(recipes, recipe_index, new_title,
                                  CollectIngredients(input.ings, <<>>), input.answer,
                                  CollectLines(input.lines, <<>>))
                /\ SaveAndReturn("updated",
                       new_title # <<>> /\ IsDuplicate(recipes, recipe_index, new_title),
                       recipes', ios)

\* delete_recipe returning without the call of save_recipes.
DeleteOnUnsaved(ios) ==
    /\ pc = "delete"
    /\ IF recipes = <<>>
       THEN recipes' = recipes /\ Return("empty", <<>>)
       ELSE /\ recipes' = WithoutTitle(recipes, Strip(input.arg))
            /\ IF Len(recipes') < Len(recipes)
               THEN Return("deleted", <<>>)
               ELSE Return("not_found", <<>>)

\* delete_recipe(recipes), the file system behaving as in ios
DeleteOn(ios) ==
    /\ pc = "delete"
    /\ IF recipes = <<>>
       THEN recipes' = recipes /\ Return("empty", <<>>)
       ELSE /\ recipes' = WithoutTitle(recipes, Strip(input.arg))
            /\ IF Len(recipes') < Len(recipes)
               THEN SaveAndReturn("deleted", FALSE, recipes', ios)
               ELSE Return("not_found", <<>>)

Add == AddOn(Healthy)

Edit == EditOn(Healthy)

Delete == DeleteOn(Healthy)

Next ==
    \/ MainLoad
    \/ Menu
    \/ Exit
    \/ InvalidChoice
    \/ Add
    \/ View
    \/ Search
    \/ Edit
    \/ Delete

Spec == Init /\ [][Next]_vars

(***************************************************************************)
(* The program on a file system whose calls can fail: every load and every *)
(* save draws its outcome from IoOutcomes, at most MaxSaveFailures saves   *)
(* failing.  The user types lines of a smaller choice.                     *)
(***************************************************************************)
FaultyAddInputs(rs) ==
    { in \in AddInputs(rs) :
         /\ in.arg \in {<<"a">>, <<" ", "b">>}
         /\ in.ings \in {<<>>, <<<<" ", "a">>, Done>>}
         /\ in.lines \in {<<>>, <<<<>>, <<"a">>, Done>>} }

FaultySearchScripts(rs) ==
    { in \in SearchScripts(rs) : in.arg \in {<<>>, <<"a">>} }

FaultyEditInputs(rs) ==
    { in \in EditInputs(rs) :
         /\ in.arg \in {<<>>, <<"A">>, <<"b", " ">>}
         /\ in.newTitle \in {<<>>, <<"a">>}
         /\ in.ings \in {<<>>, <<Done>>, <<<<"a", "B">>, <<>>, <<"a", " ">>, DoneAlt>>}
         /\ in.answer \in {<<>>, <<"n", "o">>}
         /\ in.lines \in {<<>>, <<Done>>, <<<<"a">>, DoneAlt, <<"b">>, DoneUpper>>} }

FaultyDeleteInputs(rs) ==
    { in \in DeleteInputs(rs) : in.arg \in {<<"A">>, <<"b", " ">>} }

\* main: the menu, the choice and the dispatch, as in Menu.
MenuFaulty ==
    /\ pc = "menu"
    /\ \/ /\ Len(recipes) < MaxRecipes
          /\ pc' = "add"
          /\ input' \in FaultyAddInputs(recipes)
       \/ pc' = "view" /\ input' = NoInput
       \/ pc' = "search" /\ input' \in FaultySearchScripts(recipes)
       \/ pc' = "edit" /\ input' \in FaultyEditInputs(recipes)
       \/ pc' = "delete" /\ input' \in FaultyDeleteInputs(recipes)
    /\ out' = Printed("menu", <<>>, FALSE)
    /\ saves' = <<>>
    /\ UNCHANGED <<recipes, disk, failures>>

MainLoadFaulty == MainLoadOn(IoOutcomes)

AddFaulty == AddOn(IoOutcomes)

EditFaulty == EditOn(IoOutcomes)

DeleteFaulty == DeleteOn(IoOutcomes)

NextFaulty ==
    \/ MainLoadFaulty
    \/ MenuFaulty
    \/ Exit
    \/ InvalidChoice
    \/ AddFaulty
    \/ View
    \/ Search
    \/ EditFaulty
    \/ DeleteFaulty

SpecFaulty == Init /\ [][NextFaulty]_vars

(***************************************************************************)
(* The recipe store on its own: save_recipes(C) for a collection C, then   *)
(* load_recipes(), as test_save_and_load_recipes calls them.               *)
(***************************************************************************)
StoreTitles == {<<"a", "\"">>, <<"\\", "n">>}

StoreIngredients == {<<>>, <<<<EAcute>>>>, <<<<"\n">>, <<>>>>}

StoreInstructions == {<<"\t", "\\">>, <<"a", "\n", "b">>}

StoreRecipes ==
    { NewRecipe(t, i, s) : t \in StoreTitles, i \in StoreIngredients, s \in StoreInstructions }

StoreCollections ==
    UNION { [1..n -> StoreRecipes] : n \in 0..MaxRecipes }

\* The document before the save: none, an unparsable one, and one longer than
\* any dump of the model.
StoreDocuments ==
    { NoFile,
      File(<<Tok("[")>>),
      File(Dump([i \in 1..(MaxRecipes + 2) |->
                    NewRecipe(<<"a", "b">>, <<<<"a">>, <<"b">>>>, <<"a", "\n", "b", "\n", "a">>)])) }

InitStore ==
    /\ recipes \in StoreCollections
    /\ disk \in StoreDocuments
    /\ pc = "store"
    /\ input = NoInput
    /\ out = Printed("init", <<>>, FALSE)
    /\ saves = <<>>
    /\ failures = 0

\* save_recipes(recipes), the write succeeding
StoreSave ==
    /\ pc = "store"
    /\ pc' = "saved"
    /\ disk' = SaveRecipes(recipes, disk, "ok")
    /\ saves' = <<recipes>>
    /\ out' = Printed("saved", <<>>, FALSE)
    /\ UNCHANGED <<recipes, input, failures>>

\* loaded_data = load_recipes()
StoreLoad ==
    /\ pc = "saved"
    /\ pc' = "loaded"
    /\ recipes' = LoadRecipes(disk)
    /\ UNCHANGED <<disk, input, out, saves, failures>>

NextStore ==
    \/ StoreSave
    \/ StoreLoad

SpecStore == InitStore /\ [][NextStore]_vars

(***************************************************************************)
(* Properties.  The title, target and search term "given" to a handler are *)
(* the values of its input(...).strip() expressions; the ingredients       *)
(* "entered" are the stripped, non-empty lines before the terminator; the  *)
(* instruction lines are the lines as typed before the terminator.         *)
(***************************************************************************)
SameTitle(s, t) == Lower(s) = Lower(t)

HasTitle(rs, t) == \E i \in 1..Len(rs) : SameTitle(rs[i][KTitle], t)

UniqueTitles(rs) ==
    \A i, j \in 1..Len(rs) : i # j => ~SameTitle(rs[i][KTitle], rs[j][KTitle])

AllValid(rs) ==
    \A i \in 1..Len(rs) :
        /\ rs[i][KTitle] # <<>>
        /\ rs[i][KIngredients] # <<>>
        /\ rs[i][KInstructions] # <<>>

\* The typed lines before the first ingredient terminator.
BeforeDoneStripped(lines) ==
    LET n == CHOOSE i \in 1..Len(lines) :
                /\ Lower(Strip(lines[i])) = Done
                /\ \A j \in 1..(i - 1) : Lower(Strip(lines[j])) # Done
    IN  SubSeq(lines, 1, n - 1)

\* The typed lines before the first instruction terminator.
BeforeDone(lines) ==
    LET n == CHOOSE i \in 1..Len(lines) :
                /\ Lower(lines[i]) = Done
                /\ \A j \in 1..(i - 1) : Lower(lines[j]) # Done
    IN  SubSeq(lines, 1, n - 1)

EnteredIngredients(lines) ==
    LET typed == BeforeDoneStripped(lines)
        NonEmpty(x) == x # <<>>
    IN  SelectSeq([i \in 1..Len(typed) |-> Strip(typed[i])], NonEmpty)

\* The indices of the records the predicate holds of, and the records at
\* those indices in their order.
Indices(rs, P(_)) == {i \in 1..Len(rs) : P(rs[i])}

Picked(rs, I) ==
    LET Nth(k) == CHOOSE i \in I : Cardinality({j \in I : j <= i}) = k
    IN  [k \in 1..Cardinality(I) |-> rs[Nth(k)]]

\* add_recipe is running and has read a line at each of its three prompts.
AddReadAll == pc = "add" /\ input.ings # <<>> /\ input.lines # <<>>

\* C1: from a collection in which no two titles are equal case-insensitively,
\* no Add, Edit or Delete leads to a collection in which two are.
C1_TitleUniqueness ==
    [][(pc \in {"add", "edit", "delete"} /\ UniqueTitles(recipes))
          => UniqueTitles(recipes')]_vars

C1_Witness ==
    /\ out.msg = "updated"
    /\ out.conflict
    /\ Len(recipes) = 2
    /\ UniqueTitles(recipes)

\* C2: from a collection whose records all have a non-empty title, at least
\* one ingredient and non-empty instructions, every Add, Edit and Delete leads
\* to a collection whose records all have them.
C2_RecordValidity ==
    [][(pc \in {"add", "edit", "delete"} /\ AllValid(recipes))
          => AllValid(recipes')]_vars

\* C3 as claimed: an Add with a new non-empty title, at least one ingredient
\* and non-empty joined instruction lines appends the record holding the
\* title, the ingredients and the instruction lines joined by newlines, and
\* calls save once with the collection.
C3_AddAppendsJoined ==
    [][(/\ AddReadAll
        /\ Strip(input.arg) # <<>>
        /\ ~HasTitle(recipes, Strip(input.arg))
        /\ EnteredIngredients(input.ings) # <<>>
        /\ Join(Newline, BeforeDone(input.lines)) # <<>>)
          => /\ recipes' = Append(recipes,
                               NewRecipe(Strip(input.arg), EnteredIngredients(input.ings),
                                         Join(Newline, BeforeDone(input.lines))))
             /\ saves' = <<recipes'>>]_vars

\* C3 as amended: an Add with a new non-empty title, at least one ingredient
\* and instruction lines that joined by newlines and stripped are non-empty
\* grows the collection by one, appending the record that holds the title, the
\* ingredients in entry order and the joined, stripped instructions; the
\* earlier records keep their places; save is called once with the collection.
C3_AddAppends ==
    [][(/\ AddReadAll
        /\ Strip(input.arg) # <<>>
        /\ ~HasTitle(recipes, Strip(input.arg))
        /\ EnteredIngredients(input.ings) # <<>>
        /\ Strip(Join(Newline, BeforeDone(input.lines))) # <<>>)
          => /\ Len(recipes') = Len(recipes) + 1
             /\ SubSeq(recipes', 1, Len(recipes)) = recipes
             /\ recipes'[Len(recipes')] =
                    NewRecipe(Strip(input.arg), EnteredIngredients(input.ings),
                              Strip(Join(Newline, BeforeDone(input.lines))))
             /\ saves' = <<recipes'>>
             /\ out'.msg = "added"]_vars

C3_Witness ==
    /\ out.msg = "added"
    /\ Len(recipes) = 2
    /\ Len(recipes[2][KIngredients]) = 2
    /\ \E k \in 1..Len(recipes[2][KInstructions]) : recipes[2][KInstructions][k] = "\n"
    /\ saves = <<recipes>>

\* C4: an Add whose title is empty or equals an existing title
\* case-insensitively, or that collects no ingredient, or whose joined
\* instructions are empty, leaves the collection and the document as they
\* were and does not call save.
C4_AddRejected ==
    [][(/\ pc = "add"
        /\ \/ Strip(input.arg) = <<>>
           \/ HasTitle(recipes, Strip(input.arg))
           \/ EnteredIngredients(input.ings) = <<>>
           \/ Strip(Join(Newline, BeforeDone(input.lines))) = <<>>)
          => /\ recipes' = recipes
             /\ saves' = <<>>
             /\ disk' = disk
             /\ out'.msg \in {"title_empty", "duplicate", "no_ingredients", "no_instructions"}]_vars

C4_Witness ==
    /\ out.msg = "no_instructions"
    /\ Len(recipes) = 1
    /\ saves = <<>>

\* C5: a Delete whose title equals a record's title case-insensitively
\* removes exactly one record, never more; the other records keep their
\* relative order; save is called once with the resulting collection.
C5_DeleteRemovesOne ==
    [][(pc = "delete" /\ HasTitle(recipes, Strip(input.arg)))
          => LET Other(r) == ~SameTitle(r[KTitle], Strip(input.arg))
             IN  /\ Len(recipes') = Len(recipes) - 1
                 /\ Picked(recipes', Indices(recipes', Other))
                       = Picked(recipes, Indices(recipes, Other))
                 /\ saves' = <<recipes'>>]_vars

\* C6: an Edit or Delete whose target title equals no record's title
\* case-insensitively reports not found, leaves the collection and the
\* document as they were and does not call save.
C6_NotFound ==
    [][(/\ pc \in {"edit", "delete"}
        /\ recipes # <<>>
        /\ ~HasTitle(recipes, Strip(input.arg)))
          => /\ out'.msg = "not_found"
             /\ recipes' = recipes
             /\ saves' = <<>>
             /\ disk' = disk]_vars

C6_Witness ==
    /\ out.msg = "not_found"
    /\ Len(recipes) = 2
    /\ saves = <<>>

\* C7: every Edit that finds its target calls save exactly once, with the
\* collection as the prompts left it, whether or not a field changed.
C7_EditSaves ==
    [][(pc = "edit" /\ HasTitle(recipes, Strip(input.arg)))
          => /\ saves' = <<recipes'>>
             /\ out'.msg = "updated"]_vars

\* An edit has run that entered no title, no ingredient and no instruction.
C7_Witness ==
    /\ out.msg = "updated"
    /\ ~out.conflict
    /\ saves = <<recipes>>
    /\ disk = File(Dump(recipes))
    /\ Len(recipes) = 1
    /\ recipes[1][KTitle] = <<"b">>
    /\ recipes[1][KIngredients] = <<<<"a">>>>
    /\ recipes[1][KInstructions] = <<"a">>

\* C8: a Search with a non-empty term reports exactly the records whose
\* lower-cased title or one of whose lower-cased ingredients contains the
\* lower-cased term, in collection order, each once; it reports no match
\* when there is none.
C8_SearchResults ==
    [][(pc = "search" /\ recipes # <<>> /\ Strip(input.arg) # <<>>)
          => LET term == Lower(Strip(input.arg))
                 Hit(r) == \/ Contains(term, Lower(r[KTitle]))
                           \/ \E k \in 1..Len(r[KIngredients]) :
                                 Contains(term, Lower(r[KIngredients][k]))
             IN  /\ out'.found = Picked(recipes, Indices(recipes, Hit))
                 /\ (out'.found = <<>>) <=> (out'.msg = "no_match")
                 /\ (out'.found # <<>>) <=> (out'.msg = "found")]_vars

\* A search has reported two records, the first matching both by its title
\* and by an ingredient.
C8_Witness ==
    /\ out.msg = "found"
    /\ Len(out.found) = 2
    /\ out.found = recipes
    /\ Contains(<<"a">>, Lower(recipes[1][KTitle]))
    /\ Contains(<<"a">>, Lower(recipes[1][KIngredients][1]))

\* C9: View and Search leave the collection and the document as they were and
\* do not call save, whatever the collection and the term.
C9_ReadOnly ==
    [][(pc \in {"view", "search"})
          => /\ recipes' = recipes
             /\ disk' = disk
             /\ saves' = <<>>]_vars

C9_Witness ==
    /\ out.msg \in {"found", "no_match", "term_empty"}
    /\ Len(recipes) = 2
    /\ \E i \in 1..2 : recipes[i][KTitle] = <<"A">>

\* C10: after a successful save of a collection, load returns that
\* collection: the same records in the same order, each with its title, its
\* ingredients in their order and its instructions, and nothing of the
\* document that was there before.
C10_RoundTrip ==
    pc = "loaded" => (recipes = saves[1] /\ disk = File(Dump(recipes)))

C10_Witness ==
    /\ pc = "loaded"
    /\ Len(recipes) = 2
    /\ recipes[1][KTitle] = <<"\\", "n">>
    /\ recipes[1][KInstructions] = <<"\t", "\\">>
    /\ recipes[2][KTitle] = <<"a", "\"">>
    /\ recipes[2][KIngredients] = <<<<"\n">>, <<>>>>

\* The document holds text that json.load parses to the end.
Parses(toks) ==
    /\ Decodable(toks)
    /\ LET p == ParseValue(toks, 1) IN p.ok /\ p.next = Len(toks) + 1

\* C11: load returns the empty collection, the program going on to the menu,
\* when there is no document or its content fails to parse, and otherwise
\* returns what the content parses to.
C11_LoadRecovers ==
    [][pc = "start"
          => /\ pc' = "menu"
             /\ (~disk.exists \/ ~Parses(disk.content)) => recipes' = <<>>
             /\ (disk.exists /\ Parses(disk.content))
                   => recipes' = ParseValue(disk.content, 1).val]_vars

\* C12: when the save of an Add, Edit or Delete fails with an I/O error, the
\* failure is reported, the program is back at the menu and the collection
\* keeps the change just made; a save that succeeds writes the whole
\* collection, so that the document loads to the collection again.
C12_SaveFailureKept ==
    [][(pc \in {"add", "edit", "delete"} /\ saves' # <<>>)
          => IF failures' > failures
             THEN /\ pc' = "menu"
                  /\ out'.save = "error"
                  /\ recipes' = saves'[1]
                  /\ pc = "add" => Len(recipes') = Len(recipes) + 1
                  /\ pc = "delete" => Len(recipes') < Len(recipes)
             ELSE /\ pc' = "menu"
                  /\ out'.save = "saved"
                  /\ disk'.exists /\ Parses(disk'.content)
                  /\ LoadRecipes(disk') = recipes']_vars

\* C13: as long as no save has failed, whenever the program is at the menu
\* prompt, after the load at startup and after every handler, the document
\* loads to exactly the collection in memory.
C13_SnapshotConsistency ==
    (pc = "menu" /\ failures = 0) => LoadRecipes(disk) = recipes

\* An Add and then a Delete have been flushed.
C13_Witness ==
    /\ pc = "menu"
    /\ failures = 0
    /\ out.msg = "deleted"
    /\ out.save = "saved"
    /\ Len(recipes) = 1
    /\ recipes[1][KTitle] = <<"a">>
    /\ disk = File(Dump(recipes))

\* The record an Edit targets: the first whose title equals the given title
\* case-insensitively.
Target(rs, t) ==
    CHOOSE i \in 1..Len(rs) :
        /\ SameTitle(rs[i][KTitle], t)
        /\ \A j \in 1..(i - 1) : ~SameTitle(rs[j][KTitle], t)

\* The new title equals the title of a record other than the k-th.
Clashes(rs, k, t) ==
    \E j \in 1..Len(rs) : j # k /\ SameTitle(rs[j][KTitle], t)

\* The instruction text an Edit or Add enters: the lines joined and trimmed.
EnteredText(lines) == Strip(Join(Newline, BeforeDone(lines)))

C15_EditFrame ==
    [][(pc = "edit" /\ recipes # <<>>)
          => /\ Len(recipes') = Len(recipes)
             /\ ~HasTitle(recipes, Strip(input.arg)) => recipes' = recipes
             /\ HasTitle(recipes, Strip(input.arg))
                   => LET k == Target(recipes, Strip(input.arg))
                      IN  /\ \A i \in 1..Len(recipes) : i # k => recipes'[i] = recipes[i]
                          /\ DOMAIN recipes'[k] = DOMAIN recipes[k]
                          /\ Strip(input.newTitle) = <<>>
                                => recipes'[k][KTitle] = recipes[k][KTitle]
                          /\ (EnteredIngredients(input.ings) = <<>> /\ Lower(input.answer) # Yes)
                                => recipes'[k][KIngredients] = recipes[k][KIngredients]
                          /\ EnteredText(input.lines) = <<>>
                                => recipes'[k][KInstructions] = recipes[k][KInstructions]]_vars

\* An Edit of the first of two records has replaced its instructions only.
C15_Witness ==
    /\ out.msg = "updated"
    /\ Len(recipes) = 2
    /\ recipes[1] = NewRecipe(<<"a">>, <<<<"a">>>>, <<"a", "\n", " ", "D", "o", "n", "e", "\n", "b">>)
    /\ recipes[2] = NewRecipe(<<"A">>, <<<<"a", "B">>, <<"a">>>>, <<"a">>)

\* C16: in an Edit, when no new ingredient is entered the target's ingredients
\* become empty if the answer to the clear question is yes in any letter
\* case and stay as they were otherwise; when one or more are entered they
\* replace the whole list in entry order.  When the entered instruction text
\* is empty the instructions stay as they were.
C16_EditReplacements ==
    [][(pc = "edit" /\ HasTitle(recipes, Strip(input.arg)))
          => LET k == Target(recipes, Strip(input.arg))
                 entered == EnteredIngredients(input.ings)
             IN  /\ entered # <<>> => recipes'[k][KIngredients] = entered
                 /\ (entered = <<>> /\ Lower(input.answer) = Yes)
                       => recipes'[k][KIngredients] = <<>>
                 /\ (entered = <<>> /\ Lower(input.answer) # Yes)
                       => recipes'[k][KIngredients] = recipes[k][KIngredients]
                 /\ EnteredText(input.lines) = <<>>
                       => recipes'[k][KInstructions] = recipes[k][KInstructions]]_vars

\* An Edit that entered no ingredient and answered yes has cleared the list of
\* the second record; the first, not answered yes, has kept its own.
C16_Witness ==
    /\ out.msg = "updated"
    /\ Len(recipes) = 2
    /\ recipes[1][KIngredients] # <<>>
    /\ recipes[2][KIngredients] = <<>>
    /\ recipes[2][KInstructions] # <<>>

\* C17: no failure ends the program: the load at startup and every handler
\* lead to the menu prompt, whatever the document and the lines typed; the
\* program ends only by choice 6 at the menu; a choice that is none of 1 to 6
\* leads back to the prompt with the collection and the document as they were.
C17_NoFatalFailure ==
    [][/\ pc' # "crashed"
       /\ pc \in {"start", "add", "view", "search", "edit", "delete"} => pc' = "menu"
       /\ pc' = "exit" => (pc = "menu" /\ out'.msg = "bye")
       /\ (pc = "menu" /\ out'.msg = "invalid_choice")
             => (pc' = "menu" /\ recipes' = recipes /\ disk' = disk)]_vars

====
